---- MODULE Spec2Model ----
(***************************************************************************)
(* Model of generate.py, the Plymouth theme generator: main() loads the    *)
(* configuration, build_theme() validates the input assets, prepares the   *)
(* build directory, writes the theme descriptor, extracts the animation    *)
(* frames with ffmpeg and writes the theme script.                         *)
(*                                                                         *)
(* The filesystem is a function from the paths that exist to their entry   *)
(* (a directory, or a file with its content as a sequence of lines).  One  *)
(* action models one function of the program; a run is one process.        *)
(***************************************************************************)
EXTENDS Integers, Sequences, FiniteSets, TLC

VARIABLES
    argv,                \* command line: "default" (no flag), "custom" (-c my.json), "bad"
    userfile,            \* the file at configuration_filepath: [state, json]
    video,               \* what ffmpeg sees in the animation video: [codec, ticks]
    fs,                  \* filesystem: path -> [kind, data]
    configuration,       \* the configuration dict of main()
    pc,                  \* the function the process is about to execute
    status,              \* exit status of the process (meaningful once pc = "done")
    outcome,             \* the event that terminated the process
    log,                 \* functions executed so far in this run, in order
    checks,              \* paths the asset validator has tested so far, in order
    number_of_extracts,  \* value returned by extract_frames_from_video
    written,             \* paths created or overwritten in this run
    pre_fs,              \* the filesystem when this run started
    run,                 \* number of the current run
    prev                 \* summary of the previous run

vars == <<argv, userfile, video, fs, configuration, pc, status, outcome, log,
          checks, number_of_extracts, written, pre_fs, run, prev>>

(***************************** bounds ***************************************)
\* keys a user file overrides at most (configuration-loading specification)
MaxUserKeys == 2
\* keys a user file overrides at most (pipeline specification)
MaxPipelineKeys == 1
\* source paths that are missing or of the wrong kind, at most
MaxBad == 2
\* video durations are multiples of 1/TicksPerSecond seconds
TicksPerSecond == 2
\* longest video duration, in ticks
MaxTicks == 3
\* runs of the program in a row
MaxRuns == 2

(***************************** filesystem ***********************************)
Dir == [kind |-> "dir", data |-> <<>>]

File(data) == [kind |-> "file", data |-> data]

\* os.path.exists
Exists(f, path) == path \in DOMAIN f

\* os.path.isfile
IsFile(f, path) == path \in DOMAIN f /\ f[path].kind = "file"

\* os.makedirs(path)
MakeDirs(f, path) == (path :> Dir) @@ f

\* open(path, "a").write(data): keeps what the file held
FileAppend(f, path, data) ==
    IF IsFile(f, path) THEN (path :> File(f[path].data \o data)) @@ f
    ELSE (path :> File(data)) @@ f

\* open(path, "w").write(data): whole-file replacement
FileWrite(f, path, data) == (path :> File(data)) @@ f

(***************************** configuration ********************************)
\* the built-in configuration of main()
Defaults ==
    [ name |-> "custom",
      description |-> "A custom theme for Plymouth",
      theme_directory |-> "/usr/share/plymouth/themes",
      source |-> "./source",
      build |-> "./build",
      animation |-> "animation.mp4",
      fps |-> 25,
      dialog |-> [ box |-> "box.png", entry |-> "entry.png",
                   bullet |-> "bullet.png", lock |-> "lock.png", ratio |-> "0.6" ],
      progression |-> [ bar |-> "progress_bar.png", box |-> "progress_box.png",
                        ratio |-> "0.6" ] ]

\* configuration.update(custom) made one level deep: sections merged key by key
MergeDeep(base, custom) ==
    [ k \in DOMAIN base \cup DOMAIN custom |->
        IF k \notin DOMAIN custom THEN base[k]
        ELSE IF k \in {"dialog", "progression"}
             THEN [ j \in DOMAIN base[k] \cup DOMAIN custom[k] |->
                      IF j \in DOMAIN custom[k] THEN custom[k][j] ELSE base[k][j] ]
             ELSE custom[k] ]

\* configuration.update(custom) forgotten: the built-in values stay
MergeIgnored(base, custom) == base

\* configuration.update(custom_configuration): shallow key overwrite
Merge(base, custom) ==
    [ k \in DOMAIN base \cup DOMAIN custom |->
        IF k \in DOMAIN custom THEN custom[k] ELSE base[k] ]

(***************************** user files ***********************************)
\* the values the model's user files give to a key: option 1, and for the two
\* sections option 2 that omits image keys
NOptions(k) == IF k \in {"dialog", "progression"} THEN 2 ELSE 1

OptionValue(k, i) ==
    CASE k = "name" -> "foo"
      [] k = "description" -> "Other theme"
      [] k = "theme_directory" -> "/opt/themes"
      [] k = "source" -> "./assets"
      [] k = "build" -> "./out"
      [] k = "animation" -> "intro.mp4"
      [] k = "fps" -> 2
      [] k = "dialog" ->
           IF i = 1
           THEN [ box |-> "box2.png", entry |-> "entry.png",
                  bullet |-> "bullet.png", lock |-> "lock.png", ratio |-> "0.8" ]
           ELSE [ box |-> "box2.png", bullet |-> "bullet.png" ]
      [] k = "progression" ->
           IF i = 1
           THEN [ bar |-> "progress_bar.png", box |-> "progress_box.png",
                  ratio |-> "0.8" ]
           ELSE [ bar |-> "progress_bar.png" ]

\* the JSON objects that override at most n of the keys
UserJsons(keys, n) ==
    { [ k \in { j \in keys : c[j] # 0 } |-> OptionValue(k, c[k]) ] :
        c \in { d \in [keys -> 0..2] :
                  /\ \A k \in keys : d[k] <= NOptions(k)
                  /\ Cardinality({ k \in keys : d[k] # 0 }) <= n } }

NoFile == [state |-> "absent", json |-> << >>]

Malformed == [state |-> "malformed", json |-> << >>]

JsonFile(j) == [state |-> "ok", json |-> j]

(***************************** source assets ********************************)
AssetNames ==
    { "animation.mp4", "intro.mp4", "box.png", "box2.png", "entry.png",
      "bullet.png", "lock.png", "progress_box.png", "progress_bar.png" }

SourceDir == "./source"

\* f"{source_dir}/{name}"
Join(dir, name) == dir \o "/" \o name

SourcePaths == {SourceDir} \cup { Join(SourceDir, a) : a \in AssetNames }

\* every asset in place
GoodSource ==
    [ p \in SourcePaths |-> IF p = SourceDir THEN Dir ELSE File(<<"asset">>) ]

\* the source tree with the paths of bad missing (mode "absent") or of the
\* wrong kind (mode "kind"); nothing exists under a path that is no directory
BadSource(bad, mode) ==
    LET root == IF SourceDir \notin bad THEN "dir"
                ELSE IF mode = "absent" THEN "absent" ELSE "file"
        keep == IF root = "absent" THEN {}
                ELSE IF root = "file" THEN {SourceDir}
                ELSE { p \in SourcePaths : p = SourceDir \/ p \notin bad \/ mode = "kind" }
    IN  [ p \in keep |->
            IF p = SourceDir THEN (IF root = "dir" THEN Dir ELSE File(<<"blob">>))
            ELSE IF p \in bad THEN Dir ELSE File(<<"asset">>) ]

SourceStates(n) ==
    { BadSource(bad, mode) :
        bad \in { b \in SUBSET SourcePaths : Cardinality(b) <= n },
        mode \in {"absent", "kind"} }

\* what the default build path holds before the first run
BuildStates ==
    { << >>,
      "./build" :> File(<<"blob">>),
      "./build" :> Dir,
      ("./build" :> Dir)
        @@ ("./build/custom.plymouth" :> File(<<"old">>))
        @@ ("./build/animation_frame_1.png" :> File(<<"png", "old">>))
        @@ ("./build/animation_frame_90.png" :> File(<<"png", "old">>))
        @@ ("./build/README" :> File(<<"notes">>)) }

\* the videos: decodable ones of every duration, one ffprobe rejects, and one
\* ffprobe accepts whose decoding fails
Videos ==
    { [codec |-> "ok", ticks |-> t] : t \in 0..MaxTicks }
      \cup { [codec |-> "corrupt", ticks |-> 0],
             [codec |-> "undecodable", ticks |-> MaxTicks] }

(***************************** asset validation *****************************)
\* a check that only asks whether the path exists
CheckFileExistsAnyKind(f, path) == Exists(f, path)

\* check_file_exists: the condition under which the run goes on
CheckFileExists(f, path) == Exists(f, path) /\ IsFile(f, path)

\* the files check_input_assets tests, in the order of its calls
ValidatorSteps ==
    << [section |-> "", key |-> "animation"],
       [section |-> "dialog", key |-> "box"],
       [section |-> "dialog", key |-> "entry"],
       [section |-> "dialog", key |-> "bullet"],
       [section |-> "dialog", key |-> "lock"],
       [section |-> "progression", key |-> "box"],
       [section |-> "progression", key |-> "bar"] >>

\* the calls of check_file_exists from the i-th on; tested holds the paths
\* tested so far.  A key the section lacks raises KeyError before the call.
RECURSIVE RunChecks(_, _, _, _)
RunChecks(conf, f, i, tested) ==
    IF i > Len(ValidatorSteps) THEN [outcome |-> "ok", checks |-> tested]
    ELSE LET s == ValidatorSteps[i]
             holder == IF s.section = "" THEN conf ELSE conf[s.section]
         IN  IF s.key \notin DOMAIN holder
             THEN [outcome |-> "key_error", checks |-> tested]
             ELSE LET path == Join(conf.source, holder[s.key])
                  IN  IF ~CheckFileExists(f, path)
                      THEN [outcome |-> "missing_file", checks |-> Append(tested, path)]
                      ELSE RunChecks(conf, f, i + 1, Append(tested, path))

\* check_input_assets: its outcome and the paths it tested
CheckInputAssetsResult(conf, f) ==
    IF (~Exists(f, conf.source)) \/ IsFile(f, conf.source)
    THEN [outcome |-> "invalid_source", checks |-> <<conf.source>>]
    ELSE RunChecks(conf, f, 1, <<conf.source>>)

(***************************** generated files ******************************)
\* f"{configuration['build']}/{theme_name}.plymouth"
DescriptorPath(conf) == Join(conf.build, conf.name \o ".plymouth")

\* f"{configuration['build']}/{theme_name}.script"
ScriptPath(conf) == Join(conf.build, conf.name \o ".script")

\* the text write_plymouth_file writes, line by line
DescriptorText(conf) ==
    << "[Plymouth Theme]",
       "Name=" \o conf.name,
       "Description=" \o conf.description,
       "ModuleName=script",
       "",
       "[script]",
       "ImageDir=" \o conf.theme_directory \o "/" \o conf.name,
       "ScriptFile=" \o conf.theme_directory \o "/" \o conf.name \o "/"
          \o conf.name \o ".script" >>

\* the first line of the script: the loop over the frames
LoopHeader(frame_count) == "for (i = 0; i < " \o ToString(frame_count) \o "; i++)"

\* the text write_plymouth_script writes, line by line
ScriptText(frame_count) ==
    << LoopHeader(frame_count),
       "   animation_image[i] = Image(\"animation_frame_\" + i + \".png\");",
       "animation_sprite = Sprite();",
       "",
       "animation_sprite.SetX(Window.GetWidth() / 2 - animation_image[0].GetWidth() / 2);",
       "animation_sprite.SetY(Window.GetHeight() / 2 - animation_image[0].GetHeight() / 2);" >>

(***************************** frame extraction *****************************)
\* f"{output_path}/animation_frame_%d.png" with %d = i
FramePath(build, i) == Join(build, "animation_frame_" \o ToString(i) \o ".png")

\* the number the image sequence starts at: the pattern is given to ffmpeg
\* without a start_number, and its image muxer then numbers from 1
StartNumber == 1

\* the files ffmpeg writes for m frames
FramePaths(build, m) ==
    { FramePath(build, i) : i \in StartNumber..(StartNumber + m - 1) }

\* the estimate taken from the unrounded duration: int(time * fps)
NumberOfExtractsUnrounded(ticks, fps) == (ticks * fps) \div TicksPerSecond

\* number_of_extracts = int(time) * fps
NumberOfExtracts(ticks, fps) == (ticks \div TicksPerSecond) * fps

\* the frames the fps filter emits for a video of this duration: duration * fps
\* rounded down or up
EmittedCounts(ticks, fps) ==
    { (ticks * fps) \div TicksPerSecond,
      (ticks * fps + TicksPerSecond - 1) \div TicksPerSecond }

\* the frames already written when decoding fails
PartialCounts(ticks, fps) == { 0, (ticks * fps) \div (2 * TicksPerSecond) }

\* a resample that first removes the frames of earlier runs
WriteFramesClean(f, build, m, tag) ==
    LET stale == DOMAIN f \cap { FramePath(build, i) : i \in 0..100 }
    IN  [ p \in FramePaths(build, m) |-> File(<<"png", tag>>) ]
          @@ [ p \in DOMAIN f \ stale |-> f[p] ]

\* ffmpeg ... .output(pattern).run(overwrite_output=True) writing m frames
WriteFrames(f, build, m, tag) ==
    [ p \in FramePaths(build, m) |-> File(<<"png", tag>>) ] @@ f

(***************************** build_theme **********************************)
\* build_theme with the build directory prepared before the assets are checked
BuildThemeOrderPrepareFirst ==
    << "prepare_build_directory", "check_input_assets", "write_plymouth_file",
       "extract_frames_from_video", "write_plymouth_script" >>

\* build_theme with the descriptor written after the extraction
BuildThemeOrderDescriptorLast ==
    << "check_input_assets", "prepare_build_directory",
       "extract_frames_from_video", "write_plymouth_file", "write_plymouth_script" >>

\* the calls of build_theme, in order
BuildThemeOrder ==
    << "check_input_assets", "prepare_build_directory", "write_plymouth_file",
       "extract_frames_from_video", "write_plymouth_script" >>

\* where the process goes when step returns
After(step) ==
    LET i == CHOOSE j \in 1..Len(BuildThemeOrder) : BuildThemeOrder[j] = step
    IN  IF i = Len(BuildThemeOrder) THEN "done" ELSE BuildThemeOrder[i + 1]

\* sys.exit(code), or an uncaught exception (code 1)
Exit(code, event) ==
    /\ pc' = "done"
    /\ status' = code
    /\ outcome' = event

\* the step returns; after the last one build_theme and main return
Return(step) ==
    /\ pc' = After(step)
    /\ status' = 0
    /\ outcome' = IF After(step) = "done" THEN "success" ELSE outcome

\* a build path that is a file taken for a usable directory
BuildPathConflictIgnored(f, path) == FALSE

\* prepare_build_directory: the build path exists and is a file
BuildPathConflict(f, path) == Exists(f, path) /\ IsFile(f, path)

(***************************** actions **************************************)
\* main(): option parsing and configuration loading, up to build_theme
Main ==
    /\ pc = "main"
    /\ log' = Append(log, "main")
    /\ IF argv = "bad"
       THEN Exit(1, "usage") /\ UNCHANGED configuration
       ELSE IF userfile.state = "absent"
       THEN IF argv = "custom"
            THEN Exit(2, "config_missing") /\ UNCHANGED configuration
            ELSE /\ pc' = BuildThemeOrder[1]
                 /\ UNCHANGED <<status, outcome, configuration>>
       ELSE IF userfile.state = "malformed"
       THEN Exit(1, "json_error") /\ UNCHANGED configuration
       ELSE /\ configuration' = Merge(configuration, userfile.json)
            /\ pc' = BuildThemeOrder[1]
            /\ UNCHANGED <<status, outcome>>
    /\ UNCHANGED <<argv, userfile, video, fs, checks, number_of_extracts,
                   written, pre_fs, run, prev>>

\* check_input_assets(configuration)
CheckInputAssets ==
    /\ pc = "check_input_assets"
    /\ log' = Append(log, "check_input_assets")
    /\ LET r == CheckInputAssetsResult(configuration, fs)
       IN  /\ checks' = r.checks
           /\ IF r.outcome = "ok" THEN Return("check_input_assets")
              ELSE IF r.outcome = "key_error" THEN Exit(1, "key_error")
              ELSE Exit(-1, r.outcome)
    /\ UNCHANGED <<argv, userfile, video, fs, configuration, number_of_extracts,
                   written, pre_fs, run, prev>>

\* prepare_build_directory(configuration["build"])
PrepareBuildDirectory ==
    /\ pc = "prepare_build_directory"
    /\ log' = Append(log, "prepare_build_directory")
    /\ LET path == configuration.build
       IN  IF Exists(fs, path)
           THEN IF BuildPathConflict(fs, path)
                THEN Exit(-1, "build_is_file") /\ UNCHANGED <<fs, written>>
                ELSE Return("prepare_build_directory") /\ UNCHANGED <<fs, written>>
           ELSE /\ fs' = MakeDirs(fs, path)
                /\ written' = written \cup {path}
                /\ Return("prepare_build_directory")
    /\ UNCHANGED <<argv, userfile, video, configuration, checks,
                   number_of_extracts, pre_fs, run, prev>>

\* write_plymouth_file(configuration)
WritePlymouthFile ==
    /\ pc = "write_plymouth_file"
    /\ log' = Append(log, "write_plymouth_file")
    /\ fs' = FileWrite(fs, DescriptorPath(configuration), DescriptorText(configuration))
    /\ written' = written \cup {DescriptorPath(configuration)}
    /\ Return("write_plymouth_file")
    /\ UNCHANGED <<argv, userfile, video, configuration, checks,
                   number_of_extracts, pre_fs, run, prev>>

\* extract_frames_from_video(video_path, build, fps): the probe, the estimate
\* and the resample.  ffmpeg.probe and run() raise on failure, and a duration
\* of zero makes nb_frames / time raise; none is caught.
ExtractFramesFromVideo ==
    /\ pc = "extract_frames_from_video"
    /\ log' = Append(log, "extract_frames_from_video")
    /\ LET build == configuration.build
           fps == configuration.fps
       IN  IF video.codec = "corrupt"
           THEN Exit(1, "probe_error") /\ UNCHANGED <<fs, written, number_of_extracts>>
           ELSE IF video.ticks = 0
           THEN Exit(1, "zero_duration") /\ UNCHANGED <<fs, written, number_of_extracts>>
           ELSE IF video.codec = "undecodable"
           THEN \E k \in PartialCounts(video.ticks, fps) :
                   /\ fs' = WriteFrames(fs, build, k, ToString(run))
                   /\ written' = written \cup FramePaths(build, k)
                   /\ Exit(1, "resample_error")
                   /\ UNCHANGED number_of_extracts
           ELSE \E m \in EmittedCounts(video.ticks, fps) :
                   /\ fs' = WriteFrames(fs, build, m, ToString(run))
                   /\ written' = written \cup FramePaths(build, m)
                   /\ number_of_extracts' = NumberOfExtracts(video.ticks, fps)
                   /\ Return("extract_frames_from_video")
    /\ UNCHANGED <<argv, userfile, video, configuration, checks, pre_fs, run, prev>>

\* write_plymouth_script(configuration, number_of_extracts)
WritePlymouthScript ==
    /\ pc = "write_plymouth_script"
    /\ log' = Append(log, "write_plymouth_script")
    /\ fs' = FileWrite(fs, ScriptPath(configuration), ScriptText(number_of_extracts))
    /\ written' = written \cup {ScriptPath(configuration)}
    /\ Return("write_plymouth_script")
    /\ UNCHANGED <<argv, userfile, video, configuration, checks,
                   number_of_extracts, pre_fs, run, prev>>

(***************************** specifications *******************************)
\* the summary of a run that never was
NoPrev ==
    [ outcome |-> "none", configuration |-> Defaults,
      video |-> [codec |-> "ok", ticks |-> 0], fs |-> << >>,
      number_of_extracts |-> 0, written |-> {} ]

\* a process about to start, in an environment drawn from the given sets
Start(args, files, sources, builds, videos) ==
    /\ argv \in args
    /\ userfile \in files
    /\ video \in videos
    /\ fs \in { s @@ b : s \in sources, b \in builds }
    /\ configuration = Defaults
    /\ pc = "main"
    /\ status = 0
    /\ outcome = "running"
    /\ log = << >>
    /\ checks = << >>
    /\ number_of_extracts = 0
    /\ written = {}
    /\ pre_fs = fs
    /\ run = 1
    /\ prev = NoPrev

PipelineKeys == {"fps", "animation", "dialog"}

\* the pipeline over every state of the source assets, the build path and the video
Init ==
    Start({"default"},
          { JsonFile(j) : j \in UserJsons(PipelineKeys, MaxPipelineKeys) },
          SourceStates(MaxBad), BuildStates, Videos)

Next ==
    \/ Main
    \/ CheckInputAssets
    \/ PrepareBuildDirectory
    \/ WritePlymouthFile
    \/ ExtractFramesFromVideo
    \/ WritePlymouthScript

Spec == Init /\ [][Next]_vars

\* configuration loading over every command line and user file
InitConfig ==
    Start({"default", "custom", "bad"},
          {NoFile, Malformed}
            \cup { JsonFile(j) : j \in UserJsons(DOMAIN Defaults, MaxUserKeys) },
          SourceStates(1), { << >>, "./build" :> Dir },
          { [codec |-> "ok", ticks |-> MaxTicks] })

SpecConfig == InitConfig /\ [][Next]_vars

RerunKeys == {"fps", "name"}

RerunFiles == { JsonFile(j) : j \in UserJsons(RerunKeys, 1) }

\* the program is started again (python generate.py), possibly after the user
\* edited the configuration file or replaced the video; the build directory is
\* the one the previous run left
Rerun ==
    /\ pc = "done"
    /\ run < MaxRuns
    /\ userfile' \in RerunFiles
    /\ video' \in Videos
    /\ prev' = [ outcome |-> outcome, configuration |-> configuration,
                 video |-> video, fs |-> fs,
                 number_of_extracts |-> number_of_extracts,
                 written |-> prev.written \cup written ]
    /\ configuration' = Defaults
    /\ pc' = "main"
    /\ status' = 0
    /\ outcome' = "running"
    /\ log' = << >>
    /\ checks' = << >>
    /\ number_of_extracts' = 0
    /\ written' = {}
    /\ pre_fs' = fs
    /\ run' = run + 1
    /\ UNCHANGED <<argv, fs>>

InitRerun ==
    Start({"default"}, RerunFiles, {GoodSource}, BuildStates, Videos)

NextRerun == Next \/ Rerun

SpecRerun == InitRerun /\ [][NextRerun]_vars

(***************************** properties ***********************************)
Range(seq) == { seq[i] : i \in 1..Len(seq) }

\* the configuration of this run is final: main() got past its loading
Loaded == pc # "main" /\ outcome \notin {"usage", "config_missing", "json_error"}

ValidationFailures == {"invalid_source", "missing_file", "key_error"}

ExtractionFailures == {"probe_error", "zero_duration", "resample_error"}

\* the image keys the validator reads, by section
ImageKeys(section) ==
    IF section = "dialog" THEN {"box", "entry", "bullet", "lock"} ELSE {"box", "bar"}

ImageSlots == { <<sec, key>> : sec \in {"dialog", "progression"}, key \in {"box", "entry", "bullet", "lock", "bar"} }

RequiredImages == { s \in ImageSlots : s[2] \in ImageKeys(s[1]) }

KeysPresent(conf) == \A s \in RequiredImages : s[2] \in DOMAIN conf[s[1]]

SourceIsDir(conf, f) == conf.source \in DOMAIN f /\ f[conf.source].kind = "dir"

VideoIsFile(conf, f) == IsFile(f, Join(conf.source, conf.animation))

\* the image paths the configuration names
NamedImages(conf) ==
    { Join(conf.source, conf[s[1]][s[2]]) :
        s \in { r \in RequiredImages : r[2] \in DOMAIN conf[r[1]] } }

\* every required asset is in place
AssetsValid(conf, f) ==
    /\ KeysPresent(conf)
    /\ SourceIsDir(conf, f)
    /\ VideoIsFile(conf, f)
    /\ \A p \in NamedImages(conf) : IsFile(f, p)

\* a required asset is missing
AssetMissing(conf, f) ==
    \/ ~SourceIsDir(conf, f)
    \/ ~VideoIsFile(conf, f)
    \/ \E p \in NamedImages(conf) : ~IsFile(f, p)

\* the paths of this run's outputs other than the build directory itself
Outputs == written \ {configuration.build}

\* the frame images this run wrote
WrittenFrames == Outputs \ {DescriptorPath(configuration), ScriptPath(configuration)}

\* C1: when a required asset (source directory, video, dialog or progression
\* image) is missing, the run never gets past validation, ends with a non-zero
\* status and creates or modifies nothing: no build directory, descriptor,
\* script or frame.
C1_MissingAssetNoOutput ==
    (Loaded /\ AssetMissing(configuration, pre_fs)) =>
        /\ pc \in {"check_input_assets", "done"}
        /\ fs = pre_fs
        /\ written = {}
        /\ (pc = "done" => status # 0 /\ outcome \in ValidationFailures)

C1_Witness ==
    /\ pc = "done"
    /\ outcome = "missing_file"
    /\ AssetMissing(configuration, pre_fs)
    /\ ~Exists(pre_fs, configuration.build)
    /\ ~Exists(fs, configuration.build)

C3_BuildConflictFirst ==
    (pc = "done" /\ Loaded /\ IsFile(pre_fs, configuration.build)) =>
        /\ outcome = "build_is_file"
        /\ status = -1
        /\ checks = << >>
        /\ fs = pre_fs

\* C3 amended: when the build path is a regular file the run creates and
\* writes nothing and ends with a non-zero status; if asset validation passes
\* it ends at build-directory preparation with status -1, after every
\* validation check has run, and if validation fails the validation failure
\* is the terminating event and the build path is never examined.
C3_BuildConflictAfterValidation ==
    (pc = "done" /\ Loaded /\ IsFile(pre_fs, configuration.build)) =>
        /\ status # 0
        /\ fs = pre_fs
        /\ written = {}
        /\ IF AssetsValid(configuration, pre_fs)
           THEN /\ outcome = "build_is_file"
                /\ status = -1
                /\ log = <<"main", "check_input_assets", "prepare_build_directory">>
                /\ Len(checks) = 2 + Cardinality(RequiredImages)
           ELSE /\ outcome \in ValidationFailures
                /\ log = <<"main", "check_input_assets">>

C3_Witness ==
    /\ pc = "done"
    /\ outcome = "build_is_file"
    /\ IsFile(pre_fs, configuration.build)
    /\ Len(checks) > 0
    /\ fs = pre_fs

\* C4: a run that follows a successful run with the same configuration and the
\* same source assets, against the build directory that run left, succeeds and
\* leaves the descriptor and the script exactly as they were after that run.
C4_RerunIdentical ==
    ( /\ pc = "done"
      /\ run > 1
      /\ prev.outcome = "success"
      /\ prev.configuration = configuration
      /\ prev.video = video ) =>
        /\ outcome = "success"
        /\ fs[DescriptorPath(configuration)] = prev.fs[DescriptorPath(configuration)]
        /\ fs[ScriptPath(configuration)] = prev.fs[ScriptPath(configuration)]

C4_Witness ==
    /\ pc = "done"
    /\ run > 1
    /\ prev.outcome = "success"
    /\ prev.configuration = configuration
    /\ prev.video = video
    /\ {DescriptorPath(configuration), ScriptPath(configuration)} \subseteq written

\* C5: the loaded configuration takes the user file's value for every top-level
\* key the file holds and the built-in default for every other key; a user file
\* holding only a name yields a descriptor whose Name= line is that name and
\* whose other fields are the defaults.
C5_ShallowOverride ==
    (Loaded /\ argv # "bad") =>
        /\ userfile.state = "absent" => configuration = Defaults
        /\ userfile.state = "ok" =>
             /\ DOMAIN configuration = DOMAIN Defaults \cup DOMAIN userfile.json
             /\ \A k \in DOMAIN userfile.json : configuration[k] = userfile.json[k]
             /\ \A k \in DOMAIN Defaults \ DOMAIN userfile.json :
                   configuration[k] = Defaults[k]
             /\ (DOMAIN userfile.json = {"name"} /\ "write_plymouth_file" \in Range(log)) =>
                   fs[Join("./build", userfile.json.name \o ".plymouth")].data
                     = << "[Plymouth Theme]",
                          "Name=" \o userfile.json.name,
                          "Description=A custom theme for Plymouth",
                          "ModuleName=script",
                          "",
                          "[script]",
                          "ImageDir=/usr/share/plymouth/themes/" \o userfile.json.name,
                          "ScriptFile=/usr/share/plymouth/themes/" \o userfile.json.name
                             \o "/" \o userfile.json.name \o ".script" >>

C5_Witness ==
    /\ pc = "done"
    /\ outcome = "success"
    /\ userfile.state = "ok"
    /\ DOMAIN userfile.json = {"name"}
    /\ fs["./build/foo.plymouth"].data[2] = "Name=foo"
    /\ configuration.fps = 25

\* C6 as stated: the validator lets the run continue exactly when the source
\* directory is a directory, the video exists under it and each of the eight
\* named dialog/progression images exists under it (the validator's tests
\* after the source directory and the video are its image tests).
C6_EightImages ==
    (Loaded /\ "check_input_assets" \in Range(log)) =>
        ( outcome \notin ValidationFailures
            <=> /\ SourceIsDir(configuration, pre_fs)
                /\ Exists(pre_fs, Join(configuration.source, configuration.animation))
                /\ Len(checks) - 2 = 8
                /\ \A i \in 3..Len(checks) : Exists(pre_fs, checks[i]) )

\* the first validator file check, in call order, that cannot pass: its key is
\* missing from its section or its path is no regular file (0 when all pass)
CallOrder ==
    << <<"", "animation">>, <<"dialog", "box">>, <<"dialog", "entry">>,
       <<"dialog", "bullet">>, <<"dialog", "lock">>, <<"progression", "box">>,
       <<"progression", "bar">> >>

SlotKeyMissing(conf, i) ==
    CallOrder[i][1] # "" /\ CallOrder[i][2] \notin DOMAIN conf[CallOrder[i][1]]

SlotPath(conf, i) ==
    IF CallOrder[i][1] = "" THEN Join(conf.source, conf[CallOrder[i][2]])
    ELSE Join(conf.source, conf[CallOrder[i][1]][CallOrder[i][2]])

SlotBad(conf, f, i) == SlotKeyMissing(conf, i) \/ ~IsFile(f, SlotPath(conf, i))

FirstBad(conf, f) ==
    IF \A i \in 1..Len(CallOrder) : ~SlotBad(conf, f, i) THEN 0
    ELSE CHOOSE i \in 1..Len(CallOrder) :
            SlotBad(conf, f, i) /\ \A j \in 1..(i - 1) : ~SlotBad(conf, f, j)

\* C6 amended: the validator lets the run continue exactly when the source
\* directory is a directory, the video is a regular file under it and each of
\* the six dialog/progression images (dialog box, entry, bullet, lock;
\* progression box, bar) is named by the configuration and is a regular file
\* under it; otherwise the run ends with a non-zero status at the first check
\* that fails, the later checks never run.
C6_ValidatorIff ==
    (Loaded /\ "check_input_assets" \in Range(log)) =>
        /\ Cardinality(RequiredImages) = 6
        /\ outcome \notin ValidationFailures <=> AssetsValid(configuration, pre_fs)
        /\ outcome \in ValidationFailures =>
             /\ pc = "done"
             /\ status # 0
             /\ log[Len(log)] = "check_input_assets"
             /\ IF ~SourceIsDir(configuration, pre_fs)
                THEN outcome = "invalid_source" /\ checks = <<configuration.source>>
                ELSE LET i == FirstBad(configuration, pre_fs)
                     IN  /\ i > 0
                         /\ IF SlotKeyMissing(configuration, i)
                            THEN outcome = "key_error" /\ Len(checks) = i
                            ELSE /\ outcome = "missing_file"
                                 /\ Len(checks) = i + 1
                                 /\ checks[i + 1] = SlotPath(configuration, i)

C6_Witness ==
    /\ pc = "done"
    /\ outcome = "missing_file"
    /\ Len(checks) = 4
    /\ \E p \in NamedImages(configuration) :
          p # checks[4] /\ ~IsFile(pre_fs, p)

\* C7: when the probe or the resample fails, the run ends with a non-zero
\* status, the descriptor this run wrote is still in the build directory with
\* this run's content, the script is not written, and every step ran once.
C7_NoRollback ==
    (pc = "done" /\ outcome \in ExtractionFailures) =>
        /\ status # 0
        /\ DescriptorPath(configuration) \in written
        /\ IsFile(fs, DescriptorPath(configuration))
        /\ fs[DescriptorPath(configuration)].data = DescriptorText(configuration)
        /\ ScriptPath(configuration) \notin written
        /\ log = << "main", "check_input_assets", "prepare_build_directory",
                    "write_plymouth_file", "extract_frames_from_video" >>

C7_Witness ==
    /\ pc = "done"
    /\ outcome = "resample_error"
    /\ IsFile(fs, DescriptorPath(configuration))
    /\ ~Exists(pre_fs, DescriptorPath(configuration))

\* C8: after a successful run the frames written are animation_frame_0 ..
\* animation_frame_<count-1>, count being the value the extraction returned,
\* the script loops over 0 .. count-1, and every image the script loads exists
\* in the build directory.
C8_ScriptFramesExist ==
    (pc = "done" /\ outcome = "success") =>
        /\ WrittenFrames
             = { FramePath(configuration.build, i) : i \in 0..(number_of_extracts - 1) }
        /\ fs[ScriptPath(configuration)].data[1] = LoopHeader(number_of_extracts)
        /\ \A i \in 0..(number_of_extracts - 1) :
              Exists(fs, FramePath(configuration.build, i))

\* C9: a run deletes nothing: every path that existed when the run started
\* still exists, with its content unless this run wrote it, and every file an
\* earlier run wrote is still there, stale frames included.
C9_NothingDeleted ==
    /\ DOMAIN pre_fs \subseteq DOMAIN fs
    /\ \A p \in DOMAIN pre_fs \ written : fs[p] = pre_fs[p]
    /\ prev.written \cup written \subseteq DOMAIN fs

C9_Witness ==
    /\ pc = "done"
    /\ run > 1
    /\ outcome = "success"
    /\ prev.outcome = "success"
    /\ number_of_extracts < prev.number_of_extracts
    /\ \E i \in number_of_extracts..(MaxTicks * Defaults.fps) :
          /\ FramePath(configuration.build, i) \in prev.written \ written
          /\ Exists(fs, FramePath(configuration.build, i))

\* a section of the user file omits an image key the validator reads
OmitsImageKey(json) ==
    \E s \in RequiredImages : s[1] \in DOMAIN json /\ s[2] \notin DOMAIN json[s[1]]

\* C10: when the user file gives a dialog or progression section without one
\* of the image keys the validator reads, the default of that key is not
\* restored and the run ends in an error during asset validation, before the
\* build directory is created and before anything is written.
C10_PartialSectionFails ==
    (Loaded /\ userfile.state = "ok" /\ OmitsImageKey(userfile.json)) =>
        /\ ~KeysPresent(configuration)
        /\ pc \in {"check_input_assets", "done"}
        /\ fs = pre_fs
        /\ written = {}
        /\ pc = "done" =>
             /\ outcome \in ValidationFailures
             /\ status # 0
             /\ log = <<"main", "check_input_assets">>
             /\ ( /\ SourceIsDir(configuration, pre_fs)
                  /\ VideoIsFile(configuration, pre_fs)
                  /\ \A p \in NamedImages(configuration) : IsFile(pre_fs, p) )
                  => outcome = "key_error"

C10_Witness ==
    /\ pc = "done"
    /\ outcome = "key_error"
    /\ userfile.state = "ok"
    /\ "progression" \in DOMAIN userfile.json
    /\ "box" \notin DOMAIN configuration.progression
    /\ ~Exists(fs, configuration.build)
====
